---- MODULE Spec2Model ----
(***************************************************************************)
(* The HTTP move service of src/src/main.cc: the difficulty table          *)
(* (getMovetime), the engine registry (weightToEngine, getOrCreateEngine), *)
(* the single handoff slot (optionalRes), the gate (engineMutex), the GET  *)
(* handler and the best-move callback.                                     *)
(***************************************************************************)
EXTENDS Integers, Sequences, FiniteSets, TLC

(***************************************************************************)
(* Bounds of the model.                                                    *)
(***************************************************************************)
\* Number of HTTP requests that arrive during a run.
NumRequests == 2
\* Number of best-move callbacks the engine may raise without a search of
\* its own (SpecAnyCallback only).
MaxExtraCallbacks == 1

(***************************************************************************)
(* Binary floating point.  A finite value is neg * man * 2^(exp - 23) for  *)
(* a float (man has 24 bits, top bit set) and                              *)
(* neg * (man * 2^29 + low) * 2^(exp - 52) for a double (man: upper 24     *)
(* bits of the 53-bit significand, low: lower 29 bits).  A float promoted  *)
(* to double has low = 0.  Zero has man = 0, low = 0 and exp = ZeroExp.    *)
(***************************************************************************)
ManBits == 2 ^ 23
LowBits == 2 ^ 29
ZeroExp == 0 - 1075

FZero == [kind |-> "fin", neg |-> FALSE, exp |-> ZeroExp, man |-> 0, low |-> 0]
FNaN == [kind |-> "nan", neg |-> FALSE, exp |-> ZeroExp, man |-> 0, low |-> 0]

\* One step of binary long division of (q + r/den) shifts in the next bit of
\* the quotient.
NextBit(r, den) == IF 2 * r >= den THEN 1 ELSE 0

\* Shift until the quotient has 24 bits; s counts the shifts.
RECURSIVE Normalise(_, _, _, _)
Normalise(q, r, den, s) ==
  IF q >= ManBits THEN <<q, r, s>>
  ELSE Normalise(2 * q + NextBit(r, den), (2 * r) % den, den, s + 1)

\* n further quotient bits.
RECURSIVE MoreBits(_, _, _, _)
MoreBits(q, r, den, n) ==
  IF n = 0 THEN <<q, r>>
  ELSE MoreBits(2 * q + NextBit(r, den), (2 * r) % den, den, n - 1)

\* Round to nearest, ties to even, on the last kept bit.
RoundUp(q, r, den) == 2 * r > den \/ (2 * r = den /\ q % 2 = 1)

\* The float nearest to num/den (num >= 0, den > 0), as strtof computes it.
NearestFloat(neg, num, den) ==
  IF num = 0 THEN [FZero EXCEPT !.neg = neg]
  ELSE LET n == Normalise(num \div den, num % den, den, 0)
           m == IF RoundUp(n[1], n[2], den) THEN n[1] + 1 ELSE n[1]
       IN IF m = 2 * ManBits
          THEN [kind |-> "fin", neg |-> neg, exp |-> 24 - n[3], man |-> ManBits, low |-> 0]
          ELSE [kind |-> "fin", neg |-> neg, exp |-> 23 - n[3], man |-> m, low |-> 0]

\* The double nearest to num/den: the value of a decimal literal such as 0.1.
NearestDouble(num, den) ==
  IF num = 0 THEN FZero
  ELSE LET n == Normalise(num \div den, num % den, den, 0)
           l == MoreBits(0, n[2], den, 29)
           lo == IF RoundUp(l[1], l[2], den) THEN l[1] + 1 ELSE l[1]
           hi == IF lo = LowBits THEN n[1] + 1 ELSE n[1]
       IN IF hi = 2 * ManBits
          THEN [kind |-> "fin", neg |-> FALSE, exp |-> 24 - n[3], man |-> ManBits, low |-> 0]
          ELSE [kind |-> "fin", neg |-> FALSE, exp |-> 23 - n[3], man |-> hi,
                low |-> IF lo = LowBits THEN 0 ELSE lo]

\* |a| < |b| and |a| = |b| for finite values.
MagLt(a, b) ==
  \/ a.exp < b.exp
  \/ a.exp = b.exp /\ a.man < b.man
  \/ a.exp = b.exp /\ a.man = b.man /\ a.low < b.low
MagEq(a, b) == a.exp = b.exp /\ a.man = b.man /\ a.low = b.low

\* a < b and a <= b of IEEE 754 (false when either side is NaN; -0 = +0).
FloatLt(a, b) ==
  /\ a.kind = "fin" /\ b.kind = "fin"
  /\ \/ a.neg /\ ~b.neg /\ ~(a.man = 0 /\ b.man = 0)
     \/ ~a.neg /\ ~b.neg /\ MagLt(a, b)
     \/ a.neg /\ b.neg /\ MagLt(b, a)
FloatLe(a, b) ==
  /\ a.kind = "fin" /\ b.kind = "fin"
  /\ \/ FloatLt(a, b)
     \/ MagEq(a, b) /\ (a.neg = b.neg \/ a.man = 0)

(***************************************************************************)
(* std::stof on the text of the difficulty parameter.  The text is a       *)
(* sequence of one-character strings.                                      *)
(***************************************************************************)
DigitChars == <<"0", "1", "2", "3", "4", "5", "6", "7", "8", "9">>
IsDigit(c) == \E i \in 1..10 : DigitChars[i] = c
DigitVal(c) == (CHOOSE i \in 1..10 : DigitChars[i] = c) - 1

\* Consume digits of s from position i: the number read so far, how many
\* digits were read, and the position after them.
RECURSIVE ScanDigits(_, _, _, _)
ScanDigits(s, i, acc, cnt) ==
  IF i <= Len(s) /\ IsDigit(s[i])
  THEN ScanDigits(s, i + 1, 10 * acc + DigitVal(s[i]), cnt + 1)
  ELSE [val |-> acc, cnt |-> cnt, next |-> i]

RECURSIVE SkipSpace(_, _)
SkipSpace(s, i) == IF i <= Len(s) /\ s[i] = " " THEN SkipSpace(s, i + 1) ELSE i

\* Mutant of stof: like atof, 0 when no conversion can be performed.
stofLenient(s) == [ok |-> TRUE, value |-> FZero]

\* ok = FALSE stands for the std::invalid_argument that stof throws when no
\* conversion can be performed; text after the number is ignored.
stof(s) ==
  LET i0 == SkipSpace(s, 1)
      neg == i0 <= Len(s) /\ s[i0] = "-"
      i1 == IF i0 <= Len(s) /\ (s[i0] = "-" \/ s[i0] = "+") THEN i0 + 1 ELSE i0
      isNan == i1 + 2 <= Len(s) /\ s[i1] = "n" /\ s[i1 + 1] = "a" /\ s[i1 + 2] = "n"
      ip == ScanDigits(s, i1, 0, 0)
      dot == ip.next <= Len(s) /\ s[ip.next] = "."
      fp == IF dot THEN ScanDigits(s, ip.next + 1, ip.val, 0)
            ELSE [val |-> ip.val, cnt |-> 0, next |-> ip.next]
  IN IF isNan THEN [ok |-> TRUE, value |-> FNaN]
     ELSE IF ip.cnt + fp.cnt = 0 THEN [ok |-> FALSE, value |-> FZero]
     ELSE [ok |-> TRUE, value |-> NearestFloat(neg, fp.val, 10 ^ fp.cnt)]

(***************************************************************************)
(* std::to_string(float): printf "%f", six digits after the point.         *)
(***************************************************************************)
\* man * 2^e with the factors of two moved out of man.
RECURSIVE OddPart(_, _)
OddPart(man, e) ==
  IF man > 0 /\ man % 2 = 0 THEN OddPart(man \div 2, e + 1) ELSE <<man, e>>

\* The decimal digits of n, at least w of them.
RECURSIVE Decimal(_, _)
Decimal(n, w) ==
  IF n < 10 /\ w <= 1 THEN <<DigitChars[n + 1]>>
  ELSE Append(Decimal(n \div 10, w - 1), DigitChars[(n % 10) + 1])

to_string(f) ==
  LET o == OddPart(f.man, f.exp - 23)
      den == IF o[2] < 0 THEN 2 ^ (0 - o[2]) ELSE 1
      num == IF o[2] < 0 THEN o[1] * 1000000 ELSE o[1] * (2 ^ o[2]) * 1000000
      q == num \div den
      micros == IF RoundUp(q, num % den, den) THEN q + 1 ELSE q
  IN (IF f.neg THEN <<"-">> ELSE <<>>)
       \o Decimal(micros \div 1000000, 1) \o <<".">> \o Decimal(micros % 1000000, 6)

(***************************************************************************)
(* The difficulty table.                                                   *)
(***************************************************************************)
EngineWeight_Maia_1100 == "maia-1100.pb"
EngineWeight_Maia_1500 == "maia-1500.pb"
EngineWeight_Maia_1900 == "maia-1900.pb"
EngineWeight_Elo_206 == "elo-206"
EngineWeight_Elo_416 == "elo-416"
EngineWeight_Elo_754 == "elo-754"
EngineWeight_Elo_999 == "elo-999"
EngineWeight_Elo_2100 == "elo-2100"
EngineWeight_Elo_2304 == "elo-2304"
EngineWeight_Elo_2701 == "elo-2701"

Weights ==
  {EngineWeight_Maia_1100, EngineWeight_Maia_1500, EngineWeight_Maia_1900,
   EngineWeight_Elo_206, EngineWeight_Elo_416, EngineWeight_Elo_754,
   EngineWeight_Elo_999, EngineWeight_Elo_2100, EngineWeight_Elo_2304,
   EngineWeight_Elo_2701}

\* Mutant of BotDifficultySettings: movetime and depth declared in the
\* other order, so that each initialiser list fills them crosswise.
BotDifficultySettingsSwapped(movetime, depth, nodes, temperature, model) ==
  [movetime |-> depth, depth |-> movetime, nodes |-> nodes,
   temperature |-> temperature, model |-> model]

\* struct BotDifficultySettings; the initialiser lists of getMovetime give
\* the fields in this order.
BotDifficultySettings(movetime, depth, nodes, temperature, model) ==
  [movetime |-> movetime, depth |-> depth, nodes |-> nodes,
   temperature |-> temperature, model |-> model]

\* The float literal 0.5f.
HalfF == NearestFloat(FALSE, 5, 10)

\* Mutant of LeLiteral: < in place of <=.
LtLiteral(difficulty, tenths) == FloatLt(difficulty, NearestDouble(tenths, 10))

\* difficulty <= 0.t: the float is promoted to double (its low bits are 0)
\* and compared with the double nearest to the decimal literal.
LeLiteral(difficulty, tenths) == FloatLe(difficulty, NearestDouble(tenths, 10))

getMovetime(difficulty) ==
  IF LeLiteral(difficulty, 1)
    THEN BotDifficultySettings(200, 1, 1, HalfF, EngineWeight_Elo_206)
  ELSE IF LeLiteral(difficulty, 2)
    THEN BotDifficultySettings(200, 1, 1, HalfF, EngineWeight_Elo_416)
  ELSE IF LeLiteral(difficulty, 3)
    THEN BotDifficultySettings(200, 2, 1, HalfF, EngineWeight_Elo_754)
  ELSE IF LeLiteral(difficulty, 4)
    THEN BotDifficultySettings(200, 30, 0, HalfF, EngineWeight_Elo_999)
  ELSE IF LeLiteral(difficulty, 5)
    THEN BotDifficultySettings(200, 4, 1, HalfF, EngineWeight_Maia_1100)
  ELSE IF LeLiteral(difficulty, 6)
    THEN BotDifficultySettings(200, 0, 1, HalfF, EngineWeight_Maia_1500)
  ELSE IF LeLiteral(difficulty, 7)
    THEN BotDifficultySettings(200, 0, 1, HalfF, EngineWeight_Maia_1900)
  ELSE IF LeLiteral(difficulty, 8)
    THEN BotDifficultySettings(200, 8, 1, HalfF, EngineWeight_Elo_2100)
  ELSE IF LeLiteral(difficulty, 9)
    THEN BotDifficultySettings(200, 13, 1, HalfF, EngineWeight_Elo_2304)
  ELSE BotDifficultySettings(200, 18, 1, HalfF, EngineWeight_Elo_2701)

\* Settings of a request that has not resolved its difficulty yet.
NoSettings == BotDifficultySettings(0, 0, 0, FZero, "")

\* A default-constructed GoParams: every optional field empty.
NoGoParams == [movetime |-> <<>>, depth |-> <<>>, nodes |-> <<>>]

\* A pointer to the controller of an engine: the weight it is registered
\* under and which construction for that weight made it.
NoEngine == [weight |-> "", instance |-> 0]

(***************************************************************************)
(* State.                                                                  *)
(***************************************************************************)
Requests == 1..NumRequests
\* optionalRes holds a request (the address of its httplib::Response) or
\* nothing; engineMutex is held by a request or free.
NoRes == 0
NoHolder == 0

\* The texts of the difficulty parameter that requests send; <<>> is the
\* value httplib gives for a missing parameter.
DifficultyTexts ==
  {<<>>, <<"x">>, <<"n", "a", "n">>, <<"-", "1">>, <<"0">>, <<"1">>, <<"2">>,
   <<"0", ".", "5", "5">>, <<"0", ".", "7", "5">>}
    \cup {<<"0", ".", DigitChars[t + 1]>> : t \in 1..9}

\* The texts used where the callback may run at any time: a missing
\* parameter, one that is no number, two whose engines the startup loop
\* constructed and one whose engine it did not.
HandoffTexts ==
  {<<>>, <<"x">>, <<"0", ".", "3">>, <<"1">>, <<"0", ".", "5", "5">>}

\* The initializer list of the startup loop: 0.0f, 0.1f, ..., 1.0f.
NumStartup == 11
StartupDifficulty(i) == NearestFloat(FALSE, i - 1, 10)

VARIABLES
  startupIdx,     \* main: next element of the startup loop; NumStartup + 1
                  \* once server.listen serves requests
  weightToEngine, \* the registry: weight -> EngineWithOptions
  constructed,    \* per weight, how many CallbackUciResponder/engine
                  \* constructions getOrCreateEngine has made
  controller,     \* per weight, the EngineController: position and search
  optionalRes,    \* the handoff slot
  engineMutex,    \* the gate
  pc,             \* per request, the handler's position
  difficultyText, \* per request, req.get_param_value("difficulty") as read
                  \* by the handler
  settings,       \* per request, the local settings
  engine,         \* per request, the local engine: the controller that
                  \* getOrCreateEngine returned
  goParams,       \* per request, the local goParams
  res,            \* per request, its httplib::Response
  cbPc,           \* per weight, the position of its best-move callback
  cbInfo,         \* per weight, the argument of its best-move callback
  extraCallbacks, \* callbacks raised without a search (SpecAnyCallback)
  aborted,        \* abort() was called
  cerr            \* the last diagnostic written to std::cerr

vars ==
  <<startupIdx, weightToEngine, constructed, controller, optionalRes,
    engineMutex, pc, difficultyText, settings, engine, goParams, res, cbPc,
    cbInfo, extraCallbacks, aborted, cerr>>

IdleController ==
  [position |-> "none", searching |-> FALSE, by |-> NoRes, go |-> NoGoParams]

Init ==
  /\ startupIdx = 1
  /\ weightToEngine = <<>>
  /\ constructed = [w \in Weights |-> 0]
  /\ controller = [w \in Weights |-> IdleController]
  /\ optionalRes = NoRes
  /\ engineMutex = NoHolder
  /\ pc = [r \in Requests |-> "idle"]
  /\ difficultyText = [r \in Requests |-> <<>>]
  /\ settings = [r \in Requests |-> NoSettings]
  /\ engine = [r \in Requests |-> NoEngine]
  /\ goParams = [r \in Requests |-> NoGoParams]
  /\ res = [r \in Requests |-> [body |-> <<>>, sets |-> 0]]
  /\ cbPc = [w \in Weights |-> "idle"]
  /\ cbInfo = [w \in Weights |-> [engine |-> w, by |-> NoRes]]
  /\ extraCallbacks = 0
  /\ aborted = FALSE
  /\ cerr = ""

(***************************************************************************)
(* getOrCreateEngine.                                                      *)
(***************************************************************************)
\* Mutant of Missing: the lookup is skipped and every call constructs.
MissingAlways(weight) == TRUE

\* weightToEngine.find(weight) == weightToEngine.end()
Missing(weight) == weight \notin DOMAIN weightToEngine

\* A freshly constructed EngineWithOptions: no option set yet.
NewEngine(n) ==
  [instance |-> n,
   options |-> [WeightsFile |-> "", Temperature |-> <<>>, NNCacheSize |-> ""],
   setCount |-> [WeightsFile |-> 0, Temperature |-> 0, NNCacheSize |-> 0]]

\* unordered_map::emplace: inserts only when the key is absent.
Emplace(map, weight, entry) ==
  IF weight \in DOMAIN map THEN map
  ELSE [w \in DOMAIN map \cup {weight} |-> IF w = weight THEN entry ELSE map[w]]

\* parser.SetUciOption(name, value)
SetUciOption(e, name, value) ==
  [e EXCEPT !.options[name] = value, !.setCount[name] = @ + 1]

\* The three SetUciOption calls of the construction branch.
Configure(e, s) ==
  SetUciOption(
    SetUciOption(SetUciOption(e, "WeightsFile", s.model),
                 "Temperature", to_string(s.temperature)),
    "NNCacheSize", "20000")

\* Mutant of RegistryAfter: the options are set outside the if, on every
\* call.
RegistryReconfigured(s) ==
  LET m == IF Missing(s.model)
           THEN Emplace(weightToEngine, s.model, NewEngine(constructed[s.model] + 1))
           ELSE weightToEngine
  IN [m EXCEPT ![s.model] = Configure(@, s)]

\* The registry and the construction count after getOrCreateEngine(s).
RegistryAfter(s) ==
  IF Missing(s.model)
  THEN LET m == Emplace(weightToEngine, s.model, NewEngine(constructed[s.model] + 1))
       IN [m EXCEPT ![s.model] = Configure(@, s)]
  ELSE weightToEngine
ConstructedAfter(s) ==
  IF Missing(s.model) THEN [constructed EXCEPT ![s.model] = @ + 1]
  ELSE constructed

\* getOrCreateEngine(s, optionalRes): the registry afterwards, and the
\* controller returned, &weightToEngine.at(weight).controller.
getOrCreateEngine(s) ==
  /\ weightToEngine' = RegistryAfter(s)
  /\ constructed' = ConstructedAfter(s)
Returned(s) ==
  [weight |-> s.model, instance |-> RegistryAfter(s)[s.model].instance]

(***************************************************************************)
(* main: the startup loop.                                                 *)
(***************************************************************************)
Serving == startupIdx = NumStartup + 1

\* One iteration: getOrCreateEngine(getMovetime(difficulty))->NewGame().
Startup ==
  /\ ~aborted
  /\ startupIdx <= NumStartup
  /\ LET s == getMovetime(StartupDifficulty(startupIdx))
     IN /\ getOrCreateEngine(s)
        /\ controller' = [controller EXCEPT ![s.model].position = "startpos"]
  /\ startupIdx' = startupIdx + 1
  /\ UNCHANGED <<optionalRes, engineMutex, pc, difficultyText, settings, engine,
                 goParams, res, cbPc, cbInfo, extraCallbacks, aborted, cerr>>

(***************************************************************************)
(* The GET / handler, one action per step of request r.                    *)
(***************************************************************************)
\* httplib calls the handler on a thread of its own.
Arrive(r) ==
  /\ ~aborted
  /\ Serving
  /\ pc[r] = "idle"
  /\ pc' = [pc EXCEPT ![r] = "lock"]
  /\ UNCHANGED <<startupIdx, weightToEngine, constructed, controller,
                 optionalRes, engineMutex, difficultyText, settings, engine,
                 goParams, res, cbPc, cbInfo, extraCallbacks, aborted, cerr>>

\* Mutant of GateFree: the handler does not wait for the mutex.
GateAlwaysFree == TRUE

\* Mutex::Lock lock(engineMutex) blocks until the mutex is free.
GateFree == engineMutex = NoHolder

Lock(r) ==
  /\ ~aborted
  /\ pc[r] = "lock"
  /\ GateFree
  /\ engineMutex' = r
  /\ pc' = [pc EXCEPT ![r] = "resolve"]
  /\ UNCHANGED <<startupIdx, weightToEngine, constructed, controller,
                 optionalRes, difficultyText, settings, engine, goParams, res,
                 cbPc, cbInfo, extraCallbacks, aborted, cerr>>

\* catch (std::exception& e): the diagnostic and abort().
Abort(r) ==
  /\ aborted' = TRUE
  /\ cerr' = "Unhandled exception"
  /\ pc' = [pc EXCEPT ![r] = "aborted"]

\* settings = getMovetime(std::stof(req.get_param_value("difficulty"))),
\* where the request carries `text` as its difficulty parameter.
Resolve(r, text) ==
  /\ ~aborted
  /\ pc[r] = "resolve"
  /\ difficultyText' = [difficultyText EXCEPT ![r] = text]
  /\ LET f == stof(text)
     IN IF f.ok
        THEN /\ settings' = [settings EXCEPT ![r] = getMovetime(f.value)]
             /\ pc' = [pc EXCEPT ![r] = "lookup"]
             /\ UNCHANGED <<aborted, cerr>>
        ELSE /\ Abort(r)
             /\ UNCHANGED settings
  /\ UNCHANGED <<startupIdx, weightToEngine, constructed, controller,
                 optionalRes, engineMutex, engine, goParams, res, cbPc,
                 cbInfo, extraCallbacks>>

\* engine = getOrCreateEngine(settings, optionalRes)
Lookup(r) ==
  /\ ~aborted
  /\ pc[r] = "lookup"
  /\ getOrCreateEngine(settings[r])
  /\ engine' = [engine EXCEPT ![r] = Returned(settings[r])]
  /\ pc' = [pc EXCEPT ![r] = "prepare"]
  /\ UNCHANGED <<startupIdx, controller, optionalRes, engineMutex,
                 difficultyText, settings, goParams, res, cbPc, cbInfo,
                 extraCallbacks,
                 aborted, cerr>>

\* Mutant of MakeGoParams: depth and nodes are assigned without the tests.
MakeGoParamsUntested(s) ==
  [movetime |-> <<s.movetime>>, depth |-> <<s.depth>>, nodes |-> <<s.nodes>>]

\* GoParams goParams with movetime, and depth and nodes when positive.
MakeGoParams(s) ==
  [movetime |-> <<s.movetime>>,
   depth |-> IF s.depth > 0 THEN <<s.depth>> ELSE <<>>,
   nodes |-> IF s.nodes > 0 THEN <<s.nodes>> ELSE <<>>]

\* engine->NewGame(); engine->SetPosition(fen, {}); the goParams.
Prepare(r) ==
  /\ ~aborted
  /\ pc[r] = "prepare"
  /\ controller' = [controller EXCEPT ![engine[r].weight].position = "fen"]
  /\ goParams' = [goParams EXCEPT ![r] = MakeGoParams(settings[r])]
  /\ pc' = [pc EXCEPT ![r] = "arm"]
  /\ UNCHANGED <<startupIdx, weightToEngine, constructed, optionalRes,
                 engineMutex, difficultyText, settings, engine, res, cbPc,
                 cbInfo, extraCallbacks, aborted, cerr>>

\* Mutant of Arm: the slot is not armed before Go.
ArmSkipped(r) ==
  /\ ~aborted
  /\ pc[r] = "arm"
  /\ pc' = [pc EXCEPT ![r] = "go"]
  /\ UNCHANGED <<startupIdx, weightToEngine, constructed, controller,
                 optionalRes, engineMutex, difficultyText, settings, engine,
                 goParams, res, cbPc, cbInfo, extraCallbacks, aborted, cerr>>

\* optionalRes = &res
Arm(r) ==
  /\ ~aborted
  /\ pc[r] = "arm"
  /\ optionalRes' = r
  /\ pc' = [pc EXCEPT ![r] = "go"]
  /\ UNCHANGED <<startupIdx, weightToEngine, constructed, controller,
                 engineMutex, difficultyText, settings, engine, goParams, res,
                 cbPc, cbInfo, extraCallbacks, aborted, cerr>>

\* engine->Go(goParams) starts a search on the engine's own threads.
Go(r) ==
  /\ ~aborted
  /\ pc[r] = "go"
  /\ controller' = [controller EXCEPT ![engine[r].weight].searching = TRUE,
                                      ![engine[r].weight].by = r,
                                      ![engine[r].weight].go = goParams[r]]
  /\ pc' = [pc EXCEPT ![r] = "poll"]
  /\ UNCHANGED <<startupIdx, weightToEngine, constructed, optionalRes,
                 engineMutex, difficultyText, settings, engine, goParams, res,
                 cbPc, cbInfo, extraCallbacks, aborted, cerr>>

\* The loop ends and the handler returns: its locals and the request go out
\* of scope and the Lock's destructor releases the mutex.
Return(r) ==
  /\ engineMutex' = NoHolder
  /\ pc' = [pc EXCEPT ![r] = "done"]
  /\ difficultyText' = [difficultyText EXCEPT ![r] = <<>>]
  /\ settings' = [settings EXCEPT ![r] = NoSettings]
  /\ engine' = [engine EXCEPT ![r] = NoEngine]
  /\ goParams' = [goParams EXCEPT ![r] = NoGoParams]
  /\ UNCHANGED <<aborted, cerr>>

\* Mutant of Waiting: the loop gives up although the slot still holds this
\* request's response (a timeout).
WaitingTimedOut(r) == FALSE

\* The slot holds this request's response.
Waiting(r) == optionalRes = r

\* while (optionalRes.has_value() && ...): the first read of the slot.  The
\* slot is a plain std::optional that the engine's thread writes without
\* the mutex, so the two reads of the condition are two steps.
PollHasValue(r) ==
  /\ ~aborted
  /\ pc[r] = "poll"
  /\ IF optionalRes # NoRes
     THEN /\ pc' = [pc EXCEPT ![r] = "poll_value"]
          /\ UNCHANGED <<engineMutex, difficultyText, settings, engine,
                         goParams, aborted, cerr>>
     ELSE Return(r)
  /\ UNCHANGED <<startupIdx, weightToEngine, constructed, controller,
                 optionalRes, res, cbPc, cbInfo, extraCallbacks>>

\* ... && optionalRes.value() == &res: the second read.  value() throws
\* std::bad_optional_access when the slot was emptied since the first read,
\* and the handler's catch aborts; when the slot still holds this response
\* the thread sleeps and tests again.
PollValue(r) ==
  /\ ~aborted
  /\ pc[r] = "poll_value"
  /\ IF optionalRes = NoRes
     THEN /\ Abort(r)
          /\ UNCHANGED <<engineMutex, difficultyText, settings, engine, goParams>>
     ELSE IF Waiting(r)
     THEN /\ pc' = [pc EXCEPT ![r] = "poll"]
          /\ UNCHANGED <<engineMutex, difficultyText, settings, engine,
                         goParams, aborted, cerr>>
     ELSE Return(r)
  /\ UNCHANGED <<startupIdx, weightToEngine, constructed, controller,
                 optionalRes, res, cbPc, cbInfo, extraCallbacks>>

(***************************************************************************)
(* The best-move callback of the CallbackUciResponder of weight w, run on  *)
(* the engine's thread without the mutex, one step per access to the slot: *)
(* has_value, value()->set_content, reset.  cbInfo is its argument, the    *)
(* move the engine found.                                                  *)
(***************************************************************************)
\* infoToJsonString(info), for the move engine w found for the search that
\* request `by` submitted.
infoToJsonString(info) == [engine |-> info.engine, by |-> info.by]

\* Mutant of set_content: the result is not stored in the response.
set_content_dropped(response, content) == response

\* httplib::Response::set_content
set_content(response, content) ==
  [body |-> <<content>>, sets |-> response.sets + 1]

\* Mutant of CallbackFatal: the callback returns without a word.
CallbackSilent(w) == UNCHANGED <<aborted, cerr, cbPc>>

\* The else branch: the diagnostic and abort().
CallbackFatal(w) ==
  /\ aborted' = TRUE
  /\ cerr' = "EXPECTED OPTIONAL RES TO EXIST, BUT IT DIDN'T! RACE CONDITION???"
  /\ cbPc' = [cbPc EXCEPT ![w] = "aborted"]

\* The engine calls the callback with `info`:
\* if (optionalRes.has_value()) ... else ...
CallbackEnter(w, info) ==
  /\ cbInfo' = [cbInfo EXCEPT ![w] = info]
  /\ IF optionalRes # NoRes
     THEN /\ cbPc' = [cbPc EXCEPT ![w] = "write"]
          /\ UNCHANGED <<aborted, cerr>>
     ELSE CallbackFatal(w)
  /\ UNCHANGED res

\* optionalRes.value()->set_content(infoToJsonString(info), ...); value()
\* throws when the slot was emptied since the test, and an exception that
\* leaves the callback on the engine's thread terminates the process.
CallbackWrite(w) ==
  /\ ~aborted
  /\ cbPc[w] = "write"
  /\ IF optionalRes = NoRes
     THEN /\ aborted' = TRUE
          /\ cbPc' = [cbPc EXCEPT ![w] = "aborted"]
          /\ UNCHANGED res
     ELSE /\ res' = [res EXCEPT ![optionalRes] =
                       set_content(@, infoToJsonString(cbInfo[w]))]
          /\ cbPc' = [cbPc EXCEPT ![w] = "reset"]
          /\ UNCHANGED aborted
  /\ UNCHANGED <<startupIdx, weightToEngine, constructed, controller,
                 optionalRes, engineMutex, pc, difficultyText, settings, engine,
                 goParams, cbInfo, extraCallbacks, cerr>>

\* Mutant of CallbackReset: the callback returns without reset().
CallbackResetSkipped(w) ==
  /\ ~aborted
  /\ cbPc[w] = "reset"
  /\ cbPc' = [cbPc EXCEPT ![w] = "idle"]
  /\ UNCHANGED <<startupIdx, weightToEngine, constructed, controller,
                 optionalRes, engineMutex, pc, difficultyText, settings, engine,
                 goParams, res, cbInfo, extraCallbacks, aborted, cerr>>

\* optionalRes.reset()
CallbackReset(w) ==
  /\ ~aborted
  /\ cbPc[w] = "reset"
  /\ optionalRes' = NoRes
  /\ cbPc' = [cbPc EXCEPT ![w] = "idle"]
  /\ UNCHANGED <<startupIdx, weightToEngine, constructed, controller,
                 engineMutex, pc, difficultyText, settings, engine, goParams,
                 res, cbInfo, extraCallbacks, aborted, cerr>>

\* The engine reports the best move of the search it was given: once per Go.
BestMove(w) ==
  /\ ~aborted
  /\ controller[w].searching
  /\ cbPc[w] = "idle"
  /\ controller' = [controller EXCEPT ![w].searching = FALSE]
  /\ CallbackEnter(w, [engine |-> w, by |-> controller[w].by])
  /\ UNCHANGED <<startupIdx, weightToEngine, constructed, optionalRes,
                 engineMutex, pc, difficultyText, settings, engine, goParams,
                 extraCallbacks>>

\* An engine that has reported the best move of a search reports it once
\* more: a duplicate or late invocation of its callback.
ExtraBestMove(w) ==
  /\ ~aborted
  /\ w \in DOMAIN weightToEngine
  /\ controller[w].by # NoRes
  /\ ~controller[w].searching
  /\ cbPc[w] = "idle"
  /\ extraCallbacks < MaxExtraCallbacks
  /\ extraCallbacks' = extraCallbacks + 1
  /\ CallbackEnter(w, [engine |-> w, by |-> controller[w].by])
  /\ UNCHANGED <<startupIdx, weightToEngine, constructed, controller,
                 optionalRes, engineMutex, pc, difficultyText, settings, engine,
                 goParams>>

(***************************************************************************)
(* Specifications.                                                         *)
(***************************************************************************)
\* Request r takes one step; its difficulty parameter is one of `texts`.
Handler(r, texts) ==
  \/ Arrive(r)
  \/ Lock(r)
  \/ \E text \in texts : Resolve(r, text)
  \/ Lookup(r)
  \/ Prepare(r)
  \/ Arm(r)
  \/ Go(r)
  \/ PollHasValue(r)
  \/ PollValue(r)

Next ==
  \/ Startup
  \/ \E r \in Requests : Handler(r, DifficultyTexts)
  \/ \E w \in Weights : BestMove(w)
  \/ \E w \in Weights : CallbackWrite(w)
  \/ \E w \in Weights : CallbackReset(w)

\* The engine reports each search once.
Spec == Init /\ [][Next]_vars

NextAnyCallback ==
  \/ Startup
  \/ \E r \in Requests : Handler(r, HandoffTexts)
  \/ \E w \in Weights : BestMove(w)
  \/ \E w \in Weights : CallbackWrite(w)
  \/ \E w \in Weights : CallbackReset(w)
  \/ \E w \in Weights : ExtraBestMove(w)

\* The callback may also be invoked when no search is due.
SpecAnyCallback == Init /\ [][NextAnyCallback]_vars

\* Scheduling: a handler thread that has parsed its difficulty keeps being
\* scheduled, and the engine's thread keeps running: an engine that was
\* given a search eventually reports its best move, and a callback that was
\* entered runs on.
HandlerStep ==
  \E r \in Requests :
    Lookup(r) \/ Prepare(r) \/ Arm(r) \/ Go(r) \/ PollHasValue(r) \/ PollValue(r)
EngineStep ==
  \E w \in Weights : BestMove(w) \/ CallbackWrite(w) \/ CallbackReset(w)
Fairness ==
  /\ WF_vars(HandlerStep)
  /\ WF_vars(EngineStep)

\* The engine reports each search once, and eventually.
SpecFair == Init /\ [][Next]_vars /\ Fairness

(***************************************************************************)
(* Properties.                                                             *)
(***************************************************************************)
\* Request r is between acquiring and releasing the gate.
InGate(r) ==
  pc[r] \in {"resolve", "lookup", "prepare", "arm", "go", "poll", "poll_value",
             "aborted"}
\* Request r has resolved its settings and is still in the handler.
Resolved(r) ==
  pc[r] \in {"lookup", "prepare", "arm", "go", "poll", "poll_value"}
\* Request r has submitted its search and is in the poll loop.
Polling(r) == pc[r] \in {"poll", "poll_value"}

\* C1: at most one request is between acquiring and releasing the gate, and
\* it is the holder of the mutex; a request arms the slot only when the slot
\* is empty, no callback is in progress, and every other request is outside
\* the gate, the ones that armed before having been fulfilled and returned.
C1_GateSerialisesArming ==
  /\ [](/\ Cardinality({r \in Requests : InGate(r)}) <= 1
        /\ \A r \in Requests : InGate(r) => engineMutex = r)
  /\ [][\A r \in Requests :
          (optionalRes' = r /\ optionalRes # r) =>
            /\ optionalRes = NoRes
            /\ engineMutex = r
            /\ \A w \in Weights : cbPc[w] = "idle"
            /\ \A q \in Requests \ {r} :
                 /\ pc[q] \in {"idle", "lock", "done"}
                 /\ pc[q] = "done" => res[q].sets = 1]_vars

\* A later request is armed and polling after an earlier request was
\* fulfilled and returned.
C1_Witness ==
  \E r, q \in Requests :
    /\ r # q
    /\ optionalRes = r /\ Polling(r)
    /\ pc[q] = "done" /\ res[q].sets = 1

\* C2: with one callback per search, a request that finds the slot no longer
\* its own after Go (and so leaves the poll loop and returns) has had its
\* response set exactly once, with the move of its own search on its own
\* engine; no response is ever set twice.
C2_ReturnedHasOwnResult ==
  \A r \in Requests :
    /\ res[r].sets <= 1
    /\ ((Polling(r) \/ pc[r] = "done") /\ ~Waiting(r)) =>
         /\ res[r].sets = 1
         /\ Len(res[r].body) = 1
         /\ res[r].body[1].by = r
         /\ Polling(r) => res[r].body[1].engine = engine[r].weight

\* A request has left the poll loop and returned with its response set.
C2_Witness ==
  \E r \in Requests : pc[r] = "done" /\ res[r].sets = 1 /\ optionalRes = NoRes

\* C3: a result is written into a response only by the callback of the
\* search that the response's own request submitted (a callback that finds
\* another request's identity in the slot writes nothing).
C3_CallbackChecksIdentity ==
  \A r \in Requests :
    res[r].sets > 0 => (res[r].sets = 1 /\ res[r].body[1].by = r)

\* A callback is invoked in this step: a search is reported or a report is
\* repeated.
CallbackInvoked ==
  \/ extraCallbacks' # extraCallbacks
  \/ \E w \in Weights : controller[w].searching /\ ~controller'[w].searching

\* C4: a callback invoked while the slot is empty terminates the process
\* with the diagnostic: no response is written, the slot stays empty and the
\* callback does not go on to set_content or reset.
C4_EmptySlotIsFatal ==
  [][(CallbackInvoked /\ optionalRes = NoRes) =>
       /\ aborted'
       /\ cerr' = "EXPECTED OPTIONAL RES TO EXIST, BUT IT DIDN'T! RACE CONDITION???"
       /\ res' = res
       /\ optionalRes' = NoRes
       /\ \A w \in Weights : cbPc[w] = "idle" => cbPc'[w] \in {"idle", "aborted"}]_vars

\* The process was terminated by a callback that found the slot empty.
C4_Witness ==
  /\ aborted
  /\ optionalRes = NoRes
  /\ \E w \in Weights : cbPc[w] = "aborted"

\* C5: per weight at most one engine is ever constructed, the registry holds
\* exactly the constructed ones, every controller a call returned is the
\* instance the registry holds, and an entry is never removed or replaced.
C5_OneEnginePerWeight ==
  /\ [](/\ \A w \in Weights :
             /\ constructed[w] <= 1
             /\ (w \in DOMAIN weightToEngine) = (constructed[w] = 1)
        /\ \A r \in Requests :
             engine[r] # NoEngine =>
               /\ engine[r].weight \in DOMAIN weightToEngine
               /\ engine[r].instance = weightToEngine[engine[r].weight].instance)
  /\ [][\A w \in DOMAIN weightToEngine :
          /\ w \in DOMAIN weightToEngine'
          /\ weightToEngine'[w].instance = weightToEngine[w].instance]_vars

\* A request received the engine that two startup iterations (0.4f and
\* 0.5f) had already asked for.
C5_Witness ==
  \E r \in Requests :
    /\ pc[r] = "prepare"
    /\ engine[r] = [weight |-> EngineWeight_Maia_1100, instance |-> 1]
    /\ constructed[EngineWeight_Maia_1100] = 1

\* C6: every engine in the registry has had each of its three options set
\* exactly once, to its weight, "0.500000" and "20000"; a step changes the
\* registry only by adding one newly constructed entry, so a call that
\* finds its weight leaves the registry and every option as they were.
C6_OptionsSetOnce ==
  /\ [](\A w \in DOMAIN weightToEngine :
          /\ weightToEngine[w].setCount =
               [WeightsFile |-> 1, Temperature |-> 1, NNCacheSize |-> 1]
          /\ weightToEngine[w].options =
               [WeightsFile |-> w,
                Temperature |-> <<"0", ".", "5", "0", "0", "0", "0", "0">>,
                NNCacheSize |-> "20000"])
  /\ [][/\ \A w \in DOMAIN weightToEngine :
             w \in DOMAIN weightToEngine' /\ weightToEngine'[w] = weightToEngine[w]
        /\ \A w \in DOMAIN weightToEngine' \ DOMAIN weightToEngine :
             /\ constructed'[w] = constructed[w] + 1
             /\ DOMAIN weightToEngine' = DOMAIN weightToEngine \cup {w}]_vars

\* A request's call found the engine the startup loop had constructed.
C6_Witness ==
  \E r \in Requests :
    /\ pc[r] = "prepare"
    /\ engine[r].weight = EngineWeight_Elo_999
    /\ weightToEngine[EngineWeight_Elo_999].setCount.Temperature = 1
    /\ startupIdx = NumStartup + 1

\* What std::stof makes of each difficulty text, and the profile getMovetime
\* gives each number.
Parsed == [t \in DifficultyTexts |-> stof(t)]
Profile ==
  [t \in {u \in DifficultyTexts : Parsed[u].ok} |-> getMovetime(Parsed[t].value)]

\* f <= t/10 in exact arithmetic, for a float f and t in 1..9.
LeTenths(f, t) ==
  IF f.man = 0 \/ f.neg THEN TRUE
  ELSE IF f.exp >= 0 THEN FALSE
  ELSE IF f.exp < 0 - 4 THEN TRUE
  ELSE 10 * f.man <= t * 2 ^ (23 - f.exp)

\* The ten ranges (-oo, 0.1], (0.1, 0.2], ..., (0.9, +oo) and their models.
Bucket(f) == 1 + Cardinality({t \in 1..9 : ~LeTenths(f, t)})
BucketModel ==
  <<EngineWeight_Elo_206, EngineWeight_Elo_416, EngineWeight_Elo_754,
    EngineWeight_Elo_999, EngineWeight_Maia_1100, EngineWeight_Maia_1500,
    EngineWeight_Maia_1900, EngineWeight_Elo_2100, EngineWeight_Elo_2304,
    EngineWeight_Elo_2701>>

\* C7: getMovetime gives every float a profile of the table: a number gets
\* the profile of the one range that holds it (the lowest for every value
\* <= 0.1, negative ones included, the highest for every value > 0.9), and
\* a NaN gets a profile of the table too.
C7_TotalPartition ==
  \A r \in Requests :
    Resolved(r) =>
      LET d == Parsed[difficultyText[r]].value
      IN IF d.kind = "fin"
         THEN settings[r].model = BucketModel[Bucket(d)]
         ELSE \E i \in 1..10 : settings[r].model = BucketModel[i]

\* A request with a difficulty below 0 resolved to the lowest profile.
C7_Witness ==
  \E r \in Requests :
    /\ pc[r] = "lookup"
    /\ difficultyText[r] = <<"-", "1">>
    /\ settings[r].model = EngineWeight_Elo_206

\* C8: a request whose difficulty text is a threshold 0.t resolves to the
\* profile of the range that ends at 0.t.
C8_ThresholdSelectsLowerBucket ==
  \A r \in Requests :
    \A t \in 1..9 :
      (Resolved(r) /\ difficultyText[r] = <<"0", ".", DigitChars[t + 1]>>) =>
        settings[r].model = BucketModel[t]

\* 0 <= f <= 1.
InUnit(f) == FloatLe(FZero, f) /\ FloatLe(f, NearestFloat(FALSE, 1, 1))

\* Budget a is at least budget b, where 0 is unlimited.
AtLeast(a, b) == a = 0 \/ (b # 0 /\ a >= b)

\* The texts of the difficulties in [0, 1], and for each the texts of the
\* difficulties above it.
UnitTexts == {t \in DOMAIN Profile : InUnit(Parsed[t].value)}
HarderThan ==
  [t \in UnitTexts |->
     {u \in UnitTexts : FloatLt(Parsed[t].value, Parsed[u].value)}]

\* The texts of the difficulties above that of request r, within [0, 1].
Above(r) == HarderThan[difficultyText[r]]

\* C9 as stated: against the profile of a request with difficulty d1 in
\* [0, 1], the profile of every d2 > d1 in [0, 1] has a movetime, a depth
\* and a node budget at least as large.
C9_BudgetMonotone ==
  \A r \in Requests :
    (Resolved(r) /\ difficultyText[r] \in UnitTexts) =>
      \A t2 \in Above(r) :
        /\ AtLeast(Profile[t2].movetime, settings[r].movetime)
        /\ AtLeast(Profile[t2].depth, settings[r].depth)
        /\ AtLeast(Profile[t2].nodes, settings[r].nodes)

\* C9 as amended: the movetime of the profile of every d2 > d1 is at least
\* the movetime of the profile of d1.
C9_MovetimeMonotone ==
  \A r \in Requests :
    (Resolved(r) /\ difficultyText[r] \in UnitTexts) =>
      \A t2 \in Above(r) :
        AtLeast(Profile[t2].movetime, settings[r].movetime)

\* A request resolved the profile with depth 30 and unlimited nodes, below
\* profiles with smaller budgets.
C9_Witness ==
  \E r \in Requests :
    /\ pc[r] = "lookup"
    /\ settings[r].depth = 30 /\ settings[r].nodes = 0
    /\ Above(r) # {}

\* The text holds no number: it is empty or starts with a character no
\* number starts with.
NotANumber(s) ==
  Len(s) = 0 \/ ~(IsDigit(s[1]) \/ s[1] \in {"-", "+", ".", " ", "n"})

\* C10: a request whose difficulty text holds no number never gets past
\* the parse; it terminates the process, and then the slot is empty, no
\* engine was looked up, no parameters were built, no search was submitted
\* for it, no response body was written and the gate is still held by it.
C10_UnparsableIsFatal ==
  \A r \in Requests :
    /\ Resolved(r) => ~NotANumber(difficultyText[r])
    /\ (pc[r] = "aborted" /\ NotANumber(difficultyText[r])) =>
         /\ aborted
         /\ cerr = "Unhandled exception"
         /\ optionalRes = NoRes
         /\ engine[r] = NoEngine
         /\ settings[r] = NoSettings
         /\ goParams[r] = NoGoParams
         /\ \A w \in Weights : controller[w].by # r
         /\ res[r] = [body |-> <<>>, sets |-> 0]
         /\ engineMutex = r

\* A request with difficulty=x terminated the process while another
\* request had been served before it.
C10_Witness ==
  \E r, q \in Requests :
    /\ pc[r] = "aborted" /\ difficultyText[r] = <<"x">> /\ aborted
    /\ pc[q] = "done"

\* No callback is running and none starts at this step.
NoCallbackStep ==
  /\ \A w \in Weights : cbPc[w] = "idle"
  /\ cbPc' = cbPc

\* Request q is outside the gate: not yet called, waiting for the mutex, or
\* returned.
OutsideGate(q) == pc[q] \in {"idle", "lock", "done"}

\* C11: while the engine does not invoke the callback for the search that
\* request r submitted, nothing changes for r: every step leaves r in the
\* poll loop, the slot armed with r and the gate held by r, and leaves every
\* other request outside the gate, where it neither acquires the gate nor
\* arms the slot nor submits a search.
C11_StallBlocksForever ==
  [][\A r \in Requests :
       (Polling(r) /\ optionalRes = r /\ NoCallbackStep) =>
         /\ Polling(r)'
         /\ optionalRes' = r
         /\ engineMutex = r /\ engineMutex' = r
         /\ \A q \in Requests \ {r} :
              /\ OutsideGate(q) /\ OutsideGate(q)'
              /\ \A w \in Weights : controller'[w].by = q => controller[w].by = q]_vars

\* Request r has been round the poll loop with its search still running,
\* while another request waits for the mutex.
C11_Witness ==
  \E r, q \in Requests :
    /\ pc[r] = "poll_value" /\ optionalRes = r /\ engineMutex = r
    /\ controller[engine[r].weight].searching
    /\ pc[q] = "lock"

\* C12 as stated: every step that constructs an engine is made while some
\* request holds the mutex.
C12_ConstructionUnderGate ==
  [][constructed' # constructed => engineMutex # NoHolder]_vars

\* C12 as amended: every step that constructs an engine is made either by
\* the startup loop, before the server serves any request and with the
\* mutex free, or by the one request that holds the mutex, inside its call
\* of getOrCreateEngine, while every other request is outside the gate; each
\* step constructs one engine.
C12_ConstructionSerialised ==
  [][constructed' # constructed =>
       /\ \E w \in Weights :
            /\ constructed'[w] = constructed[w] + 1
            /\ \A v \in Weights \ {w} : constructed'[v] = constructed[v]
       /\ \/ /\ ~Serving
             /\ engineMutex = NoHolder
             /\ \A r \in Requests : pc[r] = "idle"
          \/ /\ Serving
             /\ \E r \in Requests :
                  /\ engineMutex = r
                  /\ pc[r] = "lookup" /\ pc'[r] = "prepare"
                  /\ \A q \in Requests \ {r} : OutsideGate(q)]_vars

\* A request handler constructed an engine the startup loop had not, while
\* another request waited for the mutex.
C12_Witness ==
  \E r, q \in Requests :
    /\ pc[r] = "prepare" /\ engineMutex = r
    /\ engine[r].weight = EngineWeight_Maia_1500
    /\ constructed[EngineWeight_Maia_1500] = 1
    /\ pc[q] = "lock"

\* C13: a handler that is about to call Go has armed the slot with its own
\* response, and while a search is running (its callback may fire at any
\* time) the slot holds the response of the request that submitted it, which
\* is in its poll loop.
C13_ArmedBeforeGo ==
  /\ \A r \in Requests : pc[r] = "go" => optionalRes = r
  /\ \A w \in Weights :
       controller[w].searching =>
         /\ controller[w].by # NoRes
         /\ optionalRes = controller[w].by
         /\ Polling(controller[w].by)
         /\ engine[controller[w].by].weight = w

\* A search is running with the slot armed by the request that submitted it.
C13_Witness ==
  \E w \in Weights :
    /\ controller[w].searching
    /\ optionalRes = controller[w].by
    /\ pc[optionalRes] = "poll"

\* C14: the slot changes only in two ways: a handler arms it, from empty to
\* its own response, at its arm step; or a callback clears it, from armed to
\* empty, at its reset.  Every callback that ends its write clears an armed
\* slot, and no other step (startup loop, getOrCreateEngine, poll loop,
\* return) changes the slot.
C14_ArmByHandlerClearByCallback ==
  [][/\ optionalRes' # optionalRes =>
          \/ /\ optionalRes = NoRes
             /\ optionalRes' \in Requests
             /\ pc[optionalRes'] = "arm" /\ pc'[optionalRes'] = "go"
             /\ cbPc' = cbPc
          \/ /\ optionalRes \in Requests
             /\ optionalRes' = NoRes
             /\ pc' = pc
             /\ \E w \in Weights : cbPc[w] = "reset" /\ cbPc'[w] = "idle"
     /\ \A w \in Weights :
          (cbPc[w] = "reset" /\ cbPc'[w] = "idle") =>
            optionalRes \in Requests /\ optionalRes' = NoRes]_vars

\* A second request armed the slot after the callback had cleared the first
\* request's arming.
C14_Witness ==
  \E r, q \in Requests :
    /\ pc[q] = "done" /\ res[q].sets = 1
    /\ pc[r] = "go" /\ optionalRes = r

\* C15: under fair scheduling and an engine that reports every search, a
\* request that acquired the gate and parsed its difficulty eventually has
\* returned with its response written once and has released the gate.
C15_GateHolderReturns ==
  \A r \in Requests :
    (pc[r] = "lookup") ~>
      (pc[r] = "done" /\ res[r].sets = 1 /\ engineMutex # r)

\* C16: the slot holds a response only while a request holds the gate, and
\* then it is that request's response; when no request holds the gate (after
\* the startup loop, between requests, after the last request) the slot is
\* empty.
C16_SlotEmptyOutsideGate ==
  /\ engineMutex = NoHolder => optionalRes = NoRes
  /\ optionalRes # NoRes =>
       /\ engineMutex = optionalRes
       /\ pc[optionalRes] \in {"go", "poll", "poll_value"}

\* A request has been served and has released the gate, another is still
\* waiting for it, and the slot is empty.
C16_Witness ==
  \E r, q \in Requests :
    /\ pc[q] = "done" /\ res[q].sets = 1
    /\ pc[r] = "lock"
    /\ engineMutex = NoHolder /\ optionalRes = NoRes

\* C17: once the startup loop has ended, the registry holds an engine for
\* each of the ten models of the table, and no handler constructs one.
C17_StartupBuildsAllEngines ==
  Serving =>
    /\ DOMAIN weightToEngine = Weights
    /\ \A w \in Weights : constructed[w] = 1

\* C18: the search that request r submitted runs on the engine of the model
\* of the profile of r's difficulty, the instance the registry holds, and
\* its parameters are that profile's budget: movetime set to the profile's,
\* depth set exactly when the profile's depth is positive and then equal to
\* it, nodes likewise; the handler's own goParams are the same.
C18_SearchCarriesOwnProfile ==
  \A r \in Requests :
    Polling(r) =>
      LET p == Profile[difficultyText[r]]
          w == engine[r].weight
          g == controller[w].go
      IN /\ w = p.model
         /\ engine[r].instance = weightToEngine[w].instance
         /\ controller[w].by = r
         /\ controller[w].position = "fen"
         /\ g = goParams[r]
         /\ g.movetime = <<p.movetime>>
         /\ g.depth = (IF p.depth > 0 THEN <<p.depth>> ELSE <<>>)
         /\ g.nodes = (IF p.nodes > 0 THEN <<p.nodes>> ELSE <<>>)
         /\ \A v \in Weights \ {w} : ~controller[v].searching

\* A request's search runs without a depth limit after an earlier request
\* was served with one.
C18_Witness ==
  \E r, q \in Requests :
    /\ pc[q] = "done" /\ res[q].sets = 1
    /\ pc[r] = "poll"
    /\ controller[engine[r].weight].searching
    /\ controller[engine[r].weight].go.depth = <<>>
    /\ \E v \in Weights : controller[v].by = q /\ controller[v].go.depth # <<>>

====
